---- MODULE Spec2Model ----
(***************************************************************************)
(* The transaction / portfolio pipeline of Finance_dashboard/app.py:       *)
(*   load_and_preprocess_transactions, calculate_monthly_cash_flow,        *)
(*   update_portfolio_value, mock_get_stock_price and the upload cycle of  *)
(*   main().                                                               *)
(*                                                                         *)
(* A DataFrame is [cols |-> set of column names, rows |-> sequence of      *)
(* rows], a row being a function from the column names to cells.  Money    *)
(* is counted in whole units for transactions and in cents for prices, so  *)
(* sums are exact.  Cells are always present (no NaN / NaT) and a table    *)
(* read from a CSV file has at least one data row.                         *)
(***************************************************************************)
EXTENDS Integers, Sequences, FiniteSets, TLC

VARIABLES
    pc,        \* position in the pipeline run of the specification
    raw,       \* the table pd.read_csv produced (kept for reference)
    df,        \* the DataFrame object handed to the functions (mutated in place)
    ret,       \* what load_and_preprocess_transactions / update_portfolio_value did
    second,    \* what a second load_and_preprocess_transactions on ret.df did
    flow,      \* what calculate_monthly_cash_flow returned
    total,     \* portfolio_df['Current Value ($)'].sum() as the Portfolio page shows it
    \* st.session_state, and the file the running upload block received
    trans_df, trans_error,
    net_worth_df, net_worth_error,
    portfolio_df, portfolio_error,
    page,
    upload

pipeVars == <<raw, df, ret, second, flow, total>>
sessVars == <<trans_df, trans_error, net_worth_df, net_worth_error,
              portfolio_df, portfolio_error, page, upload>>
vars == <<pc, pipeVars, sessVars>>

(***************************************************************************)
(* Bounds of the model.                                                    *)
(***************************************************************************)
MaxRows == 2        \* rows of a transactions table
MaxHoldings == 2    \* rows of a portfolio table

(***************************************************************************)
(* Text: a string cell is known by its characters.                         *)
(***************************************************************************)
Chars ==
    [s \in {"Groceries", "Shopping", "Dinner", "Rent", "Bill", "Subscription",
            "Rent or Shopping", "dinner", "Salary", "BILL",
            "2023-01-05", "2022-12-20", "not a date"} |->
        CASE s = "Groceries"        -> <<"G","r","o","c","e","r","i","e","s">>
          [] s = "Shopping"         -> <<"S","h","o","p","p","i","n","g">>
          [] s = "Dinner"           -> <<"D","i","n","n","e","r">>
          [] s = "Rent"             -> <<"R","e","n","t">>
          [] s = "Bill"             -> <<"B","i","l","l">>
          [] s = "Subscription"     -> <<"S","u","b","s","c","r","i","p","t","i","o","n">>
          [] s = "Rent or Shopping" -> <<"R","e","n","t"," ","o","r"," ","S","h","o","p","p","i","n","g">>
          [] s = "dinner"           -> <<"d","i","n","n","e","r">>
          [] s = "Salary"           -> <<"S","a","l","a","r","y">>
          [] s = "BILL"             -> <<"B","I","L","L">>
          [] s = "2023-01-05"       -> <<"2","0","2","3","-","0","1","-","0","5">>
          [] s = "2022-12-20"       -> <<"2","0","2","2","-","1","2","-","2","0">>
          [] s = "not a date"       -> <<"n","o","t"," ","a"," ","d","a","t","e">>]

UpperCase == <<"A","B","C","D","E","F","G","H","I","J","K","L","M",
               "N","O","P","Q","R","S","T","U","V","W","X","Y","Z">>
LowerCase == <<"a","b","c","d","e","f","g","h","i","j","k","l","m",
               "n","o","p","q","r","s","t","u","v","w","x","y","z">>

ToLower(c) ==
    IF \E i \in DOMAIN UpperCase : UpperCase[i] = c
    THEN LowerCase[CHOOSE i \in DOMAIN UpperCase : UpperCase[i] = c]
    ELSE c

CaseFold(cs) == [i \in DOMAIN cs |-> ToLower(cs[i])]

\* re.search of a literal: the literal occurs somewhere in the text.
Occurs(lit, text) ==
    \E i \in 1..(Len(text) - Len(lit) + 1) :
        SubSeq(text, i, i + Len(lit) - 1) = lit

\* Series.str.contains('a|b|c', case=False) on one cell: some alternative
\* of the pattern occurs in the cell, letter case ignored.
str_contains(cell, alternatives) ==
    \E a \in alternatives : Occurs(CaseFold(Chars[a]), CaseFold(Chars[cell]))

FoodPattern  == {"Groceries", "Shopping", "Dinner"}
BillsPattern == {"Rent", "Bill", "Subscription"}

(***************************************************************************)
(* Dates.  A raw Date cell is [str |-> text]; pd.to_datetime turns it into *)
(* a timestamp [y, m, d] and raises on text it cannot parse; a cell that   *)
(* is a timestamp already is kept.  Text is parsed as YYYY-MM-DD.          *)
(***************************************************************************)
DigitValue ==
    [c \in {"0","1","2","3","4","5","6","7","8","9"} |->
        CASE c = "0" -> 0 [] c = "1" -> 1 [] c = "2" -> 2 [] c = "3" -> 3
          [] c = "4" -> 4 [] c = "5" -> 5 [] c = "6" -> 6 [] c = "7" -> 7
          [] c = "8" -> 8 [] c = "9" -> 9]

RECURSIVE Number(_)
Number(cs) ==
    IF cs = <<>> THEN 0
    ELSE 10 * Number(SubSeq(cs, 1, Len(cs) - 1)) + DigitValue[cs[Len(cs)]]

IsDateText(cs) ==
    /\ Len(cs) = 10
    /\ cs[5] = "-" /\ cs[8] = "-"
    /\ \A i \in {1, 2, 3, 4, 6, 7, 9, 10} : cs[i] \in DOMAIN DigitValue
    /\ Number(SubSeq(cs, 6, 7)) \in 1..12
    /\ Number(SubSeq(cs, 9, 10)) \in 1..31

IsRawDate(cell) == "str" \in DOMAIN cell

Parseable(cell) == IsRawDate(cell) => IsDateText(Chars[cell.str])

to_datetime(cell) ==
    IF IsRawDate(cell)
    THEN LET cs == Chars[cell.str]
         IN  [y |-> Number(SubSeq(cs, 1, 4)),
              m |-> Number(SubSeq(cs, 6, 7)),
              d |-> Number(SubSeq(cs, 9, 10))]
    ELSE cell

\* Series.dt.to_period('M'): the year-month of a timestamp.
to_period(ts) == [y |-> ts.y, m |-> ts.m]

\* Chronological rank of a period (the order groupby sorts its keys by).
PeriodOrd(p) == p.y * 12 + p.m

\* Period.astype(str): "YYYY-MM".
PeriodStr(p) ==
    ToString(p.y) \o "-" \o (IF p.m < 10 THEN "0" ELSE "") \o ToString(p.m)

(***************************************************************************)
(* DataFrame operations.                                                   *)
(***************************************************************************)
EmptyDF == [cols |-> {}, rows |-> <<>>]

IsEmpty(t) == t.cols = {} \/ t.rows = <<>>

\* A Series is a function from the row numbers to cells.
\* df[c] = series : adds the column or overwrites it.
SetCol(t, c, series) ==
    [cols |-> t.cols \cup {c},
     rows |-> [i \in DOMAIN t.rows |->
                 [k \in t.cols \cup {c} |->
                     IF k = c THEN series[i] ELSE t.rows[i][k]]]]

\* df.loc[mask, c] = v : overwrites column c in the rows where the boolean
\* series mask is true.
SetWhere(t, mask, c, v) ==
    [t EXCEPT !.rows = [i \in DOMAIN t.rows |->
                          IF mask[i]
                          THEN [t.rows[i] EXCEPT ![c] = v]
                          ELSE t.rows[i]]]

Abs(n) == IF n < 0 THEN -n ELSE n

RECURSIVE SumCol(_, _)
SumCol(rows, c) ==
    IF rows = <<>> THEN 0 ELSE rows[1][c] + SumCol(Tail(rows), c)

(***************************************************************************)
(* load_and_preprocess_transactions(df).  The result records how the call  *)
(* ended (kind "returned" or "raised"), the returned pair (df, err) and    *)
(* obj, the state the argument object was left in.                         *)
(***************************************************************************)
Returned(t, msg, o) == [kind |-> "returned", df |-> t, err |-> msg, obj |-> o]
Raised(exc, o)      == [kind |-> "raised", df |-> EmptyDF, err |-> exc, obj |-> o]
NoResult            == [kind |-> "none", df |-> EmptyDF, err |-> "", obj |-> EmptyDF]

InvalidTransactionsMsg ==
    "Invalid transaction file. It must contain 'Date' and 'Amount' columns."

HasRequiredColumns(t) == "Date" \in t.cols /\ "Amount" \in t.cols

\* Variant: the failure return hands back the table it was given.
InvalidTransactionsKeepsTable(t) == Returned(t, InvalidTransactionsMsg, t)

InvalidTransactions(t) == Returned(EmptyDF, InvalidTransactionsMsg, t)

\* Variant: a zero amount counted as an expense.
InferTypeStrict(amount) == IF amount > 0 THEN "Income" ELSE "Expense"

InferType(amount) == IF amount >= 0 THEN "Income" ELSE "Expense"

\* Variant: Type inferred from Amount even when the column is supplied.
WithTypeAlways(t) ==
    SetCol(t, "Type", [i \in DOMAIN t.rows |-> InferType(t.rows[i]["Amount"])])

\* if 'Type' not in df.columns: df['Type'] = 'Expense'; Income where Amount >= 0
WithType(t) ==
    IF "Type" \notin t.cols
    THEN SetCol(t, "Type", [i \in DOMAIN t.rows |-> InferType(t.rows[i]["Amount"])])
    ELSE t

WithAbsAmount(t) ==
    SetCol(t, "Amount", [i \in DOMAIN t.rows |-> Abs(t.rows[i]["Amount"])])

\* The two assignments of the Category block that do not read Description.
DefaultCategory(t) ==
    SetWhere(SetCol(t, "Category", [i \in DOMAIN t.rows |-> "Other"]),
             [i \in DOMAIN t.rows |-> t.rows[i]["Type"] = "Income"],
             "Category", "Income")

\* df['Description'].str.contains(pattern, case=False): a boolean series.
ContainsAny(t, pattern) ==
    [i \in DOMAIN t.rows |-> str_contains(t.rows[i]["Description"], pattern)]

\* Variant: the two keyword assignments made in the other order.
KeywordCategorySwapped(t) ==
    SetWhere(SetWhere(t, ContainsAny(t, BillsPattern), "Category", "Bills & Utilities"),
             ContainsAny(t, FoodPattern), "Category", "Food & Shopping")

\* The two keyword assignments, in the order the code makes them.
KeywordCategory(t) ==
    SetWhere(SetWhere(t, ContainsAny(t, FoodPattern), "Category", "Food & Shopping"),
             ContainsAny(t, BillsPattern), "Category", "Bills & Utilities")

load_and_preprocess_transactions(t) ==
    IF ~HasRequiredColumns(t) THEN InvalidTransactions(t)
    ELSE IF \E i \in DOMAIN t.rows : ~Parseable(t.rows[i]["Date"])
    THEN Raised("ValueError", t)
    ELSE
      LET d1 == SetCol(t, "Date", [i \in DOMAIN t.rows |-> to_datetime(t.rows[i]["Date"])])
          d2 == SetCol(d1, "Month", [i \in DOMAIN t.rows |-> to_period(d1.rows[i]["Date"])])
          d3 == WithType(d2)
          d4 == WithAbsAmount(d3)
      IN  IF "Category" \in d4.cols THEN Returned(d4, "", d4)
          ELSE LET d5 == DefaultCategory(d4)
               IN  IF "Description" \notin d5.cols
                   THEN Raised("KeyError", d5)
                   ELSE LET d6 == KeywordCategory(d5)
                        IN  Returned(d6, "", d6)

(***************************************************************************)
(* calculate_monthly_cash_flow(df).                                        *)
(***************************************************************************)
SignedAmount(r) == IF r["Type"] = "Income" THEN r["Amount"] ELSE -r["Amount"]

RECURSIVE SortedPeriods(_)
SortedPeriods(S) ==
    IF S = {} THEN <<>>
    ELSE LET p == CHOOSE x \in S : \A z \in S : PeriodOrd(x) <= PeriodOrd(z)
         IN  <<p>> \o SortedPeriods(S \ {p})

RECURSIVE FirstSeen(_, _)
FirstSeen(rows, seen) ==
    IF rows = <<>> THEN <<>>
    ELSE IF rows[1]["Month"] \in seen THEN FirstSeen(Tail(rows), seen)
    ELSE <<rows[1]["Month"]>> \o FirstSeen(Tail(rows), seen \cup {rows[1]["Month"]})

\* Variant: groupby(sort=False), the months in order of first appearance.
GroupKeysUnsorted(rows) == FirstSeen(rows, {})

\* The group keys of groupby('Month') (sort=True): the distinct months, ascending.
GroupKeys(rows) == SortedPeriods({rows[i]["Month"] : i \in DOMAIN rows})

\* rows.groupby('Month')[c].sum().reset_index()
GroupSum(rows, c) ==
    LET keys == GroupKeys(rows)
    IN  [k \in DOMAIN keys |->
            ("Month" :> keys[k]) @@
            (c :> SumCol(SelectSeq(rows, LAMBDA r : r["Month"] = keys[k]), c))]

calculate_monthly_cash_flow(t) ==
    LET d == SetCol(t, "Signed_Amount", [i \in DOMAIN t.rows |-> SignedAmount(t.rows[i])])
        summary == GroupSum(d.rows, "Signed_Amount")
    IN  [obj |-> d,
         monthly_summary |->
            [k \in DOMAIN summary |->
                [summary[k] EXCEPT !["Month"] = PeriodStr(summary[k]["Month"])]],
         income_by_month |->
            GroupSum(SelectSeq(d.rows, LAMBDA r : r["Type"] = "Income"), "Amount"),
         expense_by_month |->
            GroupSum(SelectSeq(d.rows, LAMBDA r : r["Type"] = "Expense"), "Amount")]

NoFlow == [obj |-> EmptyDF, monthly_summary |-> <<>>,
           income_by_month |-> <<>>, expense_by_month |-> <<>>]

(***************************************************************************)
(* The tables a transactions CSV can hold, within the bounds.              *)
(***************************************************************************)
DateTexts    == {"2023-01-05", "2022-12-20", "not a date"}
Amounts      == {-5, 0, 7}
Types        == {"Income", "Expense", "Transfer"}
Descriptions == {"Rent or Shopping", "dinner", "Salary", "BILL"}

\* Rows that vary in date, amount and type (cash-flow cases).
CashFlowRows ==
    { ("Date" :> [str |-> d]) @@ ("Amount" :> a) @@ ("Type" :> ty)
        @@ ("Description" :> "Salary") @@ ("Category" :> "Misc")
      : d \in DateTexts, a \in Amounts, ty \in Types }

\* Rows that vary in description, type and sign (categorisation cases).
CategoryRows ==
    { ("Date" :> [str |-> "2023-01-05"]) @@ ("Amount" :> a) @@ ("Type" :> ty)
        @@ ("Description" :> de) @@ ("Category" :> "Misc")
      : a \in {-5, 7}, ty \in Types, de \in Descriptions }

Project(r, cols) == [k \in cols |-> r[k]]

CashFlowSchemas ==
    { {"Date", "Amount", "Category"}, {"Date", "Amount", "Type", "Category"},
      {"Amount", "Type", "Category"}, {"Date", "Type", "Category"},
      {"Type", "Category"} }

CategorySchemas ==
    { {"Date", "Amount"} \cup opt : opt \in SUBSET {"Type", "Description", "Category"} }

\* t is a table with the columns of one of the schemas and 1..MaxRows rows,
\* each the projection of a row of rowSet on those columns.
IsTableOver(t, schemas, rowSet) ==
    \E cols \in schemas : \E n \in 1..MaxRows :
        \E rs \in [1..n -> {Project(r, cols) : r \in rowSet}] :
            t = [cols |-> cols, rows |-> rs]

(***************************************************************************)
(* mock_get_stock_price and update_portfolio_value.  Prices are in cents.  *)
(***************************************************************************)
\* Variant: an unknown ticker priced at one dollar.
mock_get_stock_price_default_one(ticker) ==
    CASE ticker = "AAPL"  -> 17550
      [] ticker = "MSFT"  -> 32575
      [] ticker = "GOOGL" -> 13020
      [] OTHER            -> 100

mock_get_stock_price(ticker) ==
    CASE ticker = "AAPL"  -> 17550
      [] ticker = "MSFT"  -> 32575
      [] ticker = "GOOGL" -> 13020
      [] OTHER            -> 0

\* DataFrame.rename(columns=m): m maps old names to new ones, all at once.
NewName(m, c) == IF c \in DOMAIN m THEN m[c] ELSE c

RenameRow(r, cols, m) ==
    [k \in {NewName(m, c) : c \in cols} |->
        r[CHOOSE c \in cols : NewName(m, c) = k]]

Rename(t, m) ==
    [cols |-> {NewName(m, c) : c \in t.cols},
     rows |-> [i \in DOMAIN t.rows |-> RenameRow(t.rows[i], t.cols, m)]]

InvalidPortfolioMsg ==
    "Invalid portfolio file. It must contain 'Investment' and 'Shares' columns (or 'Asset' and 'Quantity')."

Valued(t) ==
    LET priced == SetCol(t, "Current Price ($)",
                         [i \in DOMAIN t.rows |-> mock_get_stock_price(t.rows[i]["Investment"])])
    IN  SetCol(priced, "Current Value ($)",
               [i \in DOMAIN t.rows |->
                   priced.rows[i]["Shares"] * priced.rows[i]["Current Price ($)"]])

update_portfolio_value(t) ==
    IF "Investment" \notin t.cols \/ "Shares" \notin t.cols
    THEN IF "Asset" \in t.cols /\ "Quantity" \in t.cols
         THEN LET v == Valued(Rename(t, ("Asset" :> "Investment") @@ ("Quantity" :> "Shares")))
              IN  Returned(v, "", v)
         ELSE Returned(EmptyDF, InvalidPortfolioMsg, t)
    ELSE LET v == Valued(t) IN Returned(v, "", v)

\* portfolio_df['Current Value ($)'].sum()
TotalPortfolioValue(t) == SumCol(t.rows, "Current Value ($)")

(***************************************************************************)
(* The portfolio tables a CSV can hold, within the bounds.  A file uses one *)
(* naming convention, or lacks a required column; it never mixes the two   *)
(* conventions so that the rename would produce a duplicate column label.  *)
(***************************************************************************)
Tickers    == {"AAPL", "MSFT", "GOOGL", "TSLA"}
ShareCounts == {0, 3, 10}

HoldingRows ==
    { ("Investment" :> tk) @@ ("Asset" :> tk) @@ ("Shares" :> n)
        @@ ("Quantity" :> n) @@ ("Broker" :> "X")
      : tk \in Tickers, n \in ShareCounts }

HoldingSchemas ==
    { {"Investment", "Shares"}, {"Asset", "Quantity"},
      {"Investment", "Shares", "Broker"}, {"Asset", "Quantity", "Broker"},
      {"Investment", "Quantity"}, {"Asset", "Shares"}, {"Investment"},
      {"Shares", "Broker"} }

IsHoldingTable(t) ==
    \E cols \in HoldingSchemas : \E n \in 1..MaxHoldings :
        \E rs \in [1..n -> {Project(r, cols) : r \in HoldingRows}] :
            t = [cols |-> cols, rows |-> rs]

(***************************************************************************)
(* main(): the upload blocks, as functions of the stored (table, error)    *)
(* pair and of the uploaded file.  A file is NoFile (nothing uploaded),    *)
(* [ok |-> FALSE] when pd.read_csv raises on it, or [ok |-> TRUE, table].  *)
(***************************************************************************)
NoFile == [kind |-> "none"]
Unreadable == [kind |-> "file", ok |-> FALSE, table |-> EmptyDF]
FileOf(t) == [kind |-> "file", ok |-> TRUE, table |-> t]

Stored(t, e) == [df |-> t, err |-> e]

TransLoadErrorMsg == "Error loading transactions file. Please check the format."
PortfolioLoadErrorMsg == "Error loading portfolio file. Please check the format."
NetWorthLoadErrorMsg == "Error loading net worth file. Please check the format."
NetWorthColumnsMsg == "Uploaded Net Worth file must contain 'Date' and 'Net Worth' columns."
NetWorthDateMsg == "Error converting 'Date' column. Ensure dates are in a valid format (e.g., YYYY-MM-DD)."

\* if trans_file: try: ... except Exception: trans_error = ...
ProcessTransactions(sdf, serr, file) ==
    IF file.kind = "none" THEN Stored(sdf, serr)
    ELSE IF ~file.ok THEN Stored(sdf, TransLoadErrorMsg)
    ELSE LET r == load_and_preprocess_transactions(file.table)
         IN  IF r.kind = "raised" THEN Stored(sdf, TransLoadErrorMsg)
             ELSE Stored(r.df, r.err)

\* if portfolio_file: try: ... except Exception: portfolio_error = ...
ProcessPortfolio(sdf, serr, file) ==
    IF file.kind = "none" THEN Stored(sdf, serr)
    ELSE IF ~file.ok THEN Stored(sdf, PortfolioLoadErrorMsg)
    ELSE LET r == update_portfolio_value(file.table)
         IN  IF r.kind = "raised" THEN Stored(sdf, PortfolioLoadErrorMsg)
             ELSE Stored(r.df, r.err)

\* A net-worth table also keeps the order of its columns (temp_df.columns[0], [1]).
RenameOrdered(t, m) ==
    [cols |-> {NewName(m, c) : c \in t.cols},
     order |-> [i \in DOMAIN t.order |-> NewName(m, t.order[i])],
     rows |-> [i \in DOMAIN t.rows |-> RenameRow(t.rows[i], t.cols, m)]]

SetColOrdered(t, c, series) ==
    [cols |-> t.cols, order |-> t.order, rows |-> SetCol(t, c, series).rows]

NetWorthBody(sdf, serr, file) ==
    IF ~file.ok THEN Stored(sdf, NetWorthLoadErrorMsg)
    ELSE
      LET t == file.table
          named == "Date" \in t.cols /\ "Net Worth" \in t.cols
          t1 == IF ~named /\ Len(t.order) >= 2
                THEN RenameOrdered(t, (t.order[1] :> "Date") @@ (t.order[2] :> "Net Worth"))
                ELSE t
          e1 == IF ~named /\ Len(t.order) < 2 THEN NetWorthColumnsMsg ELSE serr
      IN  IF e1 # "" THEN Stored(sdf, e1)
          ELSE IF \A i \in DOMAIN t1.rows : Parseable(t1.rows[i]["Date"])
          THEN Stored(SetColOrdered(t1, "Date",
                         [i \in DOMAIN t1.rows |-> to_datetime(t1.rows[i]["Date"])]), e1)
          ELSE Stored(t1, NetWorthDateMsg)

\* Variant: the stored error is reset when a file is uploaded.
ProcessNetWorthResetting(sdf, serr, file) ==
    IF file.kind = "none" THEN Stored(sdf, serr)
    ELSE NetWorthBody(sdf, "", file)

\* if net_worth_file: try: ... except Exception: net_worth_error = ...
ProcessNetWorth(sdf, serr, file) ==
    IF file.kind = "none" THEN Stored(sdf, serr)
    ELSE NetWorthBody(sdf, serr, file)

\* The Transactions page: the only page whose rendering writes to the session.
RenderTransactions(sdf, serr) ==
    IF serr # "" \/ IsEmpty(sdf) THEN sdf
    ELSE calculate_monthly_cash_flow(sdf).obj

Pages == {"Overview", "Transactions", "Net Worth", "Portfolio"}

\* The files a user uploads in the session.
TransactionFiles ==
    { Unreadable,
      FileOf([cols |-> {"Date", "Amount", "Description"},
              rows |-> << ("Date" :> [str |-> "2023-01-05"]) @@ ("Amount" :> -5)
                              @@ ("Description" :> "Rent or Shopping") >>]),
      FileOf([cols |-> {"Date", "Description"},
              rows |-> << ("Date" :> [str |-> "2023-01-05"])
                              @@ ("Description" :> "Salary") >>]),
      FileOf([cols |-> {"Date", "Amount"},
              rows |-> << ("Date" :> [str |-> "2022-12-20"]) @@ ("Amount" :> 7) >>]),
      FileOf([cols |-> {"Date", "Amount", "Category"},
              rows |-> << ("Date" :> [str |-> "not a date"]) @@ ("Amount" :> 7)
                              @@ ("Category" :> "Misc") >>]) }

NetWorthTable(order, date) ==
    [cols |-> {order[i] : i \in DOMAIN order},
     order |-> order,
     rows |-> << [k \in {order[i] : i \in DOMAIN order} |->
                    IF k = order[1] THEN [str |-> date] ELSE 15000] >>]

NetWorthFiles ==
    { Unreadable }
    \cup { FileOf(NetWorthTable(o, d)) :
             o \in { <<"Date", "Net Worth">>, <<"When", "Worth">>, <<"Total">> },
             d \in { "2023-01-05", "not a date" } }

PortfolioFiles ==
    { Unreadable,
      FileOf([cols |-> {"Investment", "Shares"},
              rows |-> << ("Investment" :> "AAPL") @@ ("Shares" :> 10) >>]),
      FileOf([cols |-> {"Asset", "Quantity"},
              rows |-> << ("Asset" :> "TSLA") @@ ("Quantity" :> 3) >>]),
      FileOf([cols |-> {"Investment"},
              rows |-> << ("Investment" :> "MSFT") >>]) }

(***************************************************************************)
(* Specification Spec: one upload of a transactions file, followed either  *)
(* by a second normalisation of the returned table or by the cash-flow     *)
(* aggregation the Transactions page runs on a non-empty table.            *)
(***************************************************************************)
Accepted == ret.kind = "returned" /\ ret.err = ""

SessionStart ==
    /\ trans_df = EmptyDF /\ trans_error = ""
    /\ net_worth_df = EmptyDF /\ net_worth_error = ""
    /\ portfolio_df = EmptyDF /\ portfolio_error = ""
    /\ page = "Overview"
    /\ upload = NoFile

PipeStart ==
    /\ df = raw
    /\ ret = NoResult
    /\ second = NoResult
    /\ flow = NoFlow
    /\ total = 0

Init ==
    /\ pc = "start"
    /\ \/ IsTableOver(raw, CashFlowSchemas, CashFlowRows)
       \/ IsTableOver(raw, CategorySchemas, CategoryRows)
    /\ PipeStart
    /\ SessionStart

Load ==
    /\ pc = "start"
    /\ LET r == load_and_preprocess_transactions(df)
       IN  /\ ret' = r
           /\ df' = r.obj
    /\ pc' = "loaded"
    /\ UNCHANGED <<raw, second, flow, total, sessVars>>

LoadAgain ==
    /\ pc = "loaded"
    /\ Accepted
    /\ LET r == load_and_preprocess_transactions(df)
       IN  /\ second' = r
           /\ df' = r.obj
    /\ pc' = "reloaded"
    /\ UNCHANGED <<raw, ret, flow, total, sessVars>>

CashFlow ==
    /\ pc = "loaded"
    /\ Accepted
    /\ ~IsEmpty(df)
    /\ LET f == calculate_monthly_cash_flow(df)
       IN  /\ flow' = f
           /\ df' = f.obj
    /\ pc' = "aggregated"
    /\ UNCHANGED <<raw, ret, second, total, sessVars>>

Next == Load \/ LoadAgain \/ CashFlow

Spec == Init /\ [][Next]_vars

(***************************************************************************)
(* Specification SpecPortfolio: one upload of a portfolio file, then the   *)
(* total the Portfolio page shows for a non-empty table.                   *)
(***************************************************************************)
InitPortfolio ==
    /\ pc = "start"
    /\ IsHoldingTable(raw)
    /\ PipeStart
    /\ SessionStart

Valuate ==
    /\ pc = "start"
    /\ LET r == update_portfolio_value(df)
       IN  /\ ret' = r
           /\ df' = r.obj
    /\ pc' = "valued"
    /\ UNCHANGED <<raw, second, flow, total, sessVars>>

ShowTotal ==
    /\ pc = "valued"
    /\ Accepted
    /\ ~IsEmpty(ret.df)
    /\ total' = TotalPortfolioValue(ret.df)
    /\ pc' = "totalled"
    /\ UNCHANGED <<raw, df, ret, second, flow, sessVars>>

NextPortfolio == Valuate \/ ShowTotal

SpecPortfolio == InitPortfolio /\ [][NextPortfolio]_vars

(***************************************************************************)
(* Specification SpecMain: the runs of main() over one session.  Each run  *)
(* reads the sidebar, then executes the three upload blocks in order, then *)
(* renders the selected page.                                              *)
(***************************************************************************)
InitMain ==
    /\ pc = "sidebar"
    /\ raw = EmptyDF
    /\ PipeStart
    /\ SessionStart

Sidebar ==
    /\ pc = "sidebar"
    /\ \E p \in Pages : page' = p
    /\ upload' = NoFile
    /\ pc' = "transactions"
    /\ UNCHANGED <<pipeVars, trans_df, trans_error, net_worth_df, net_worth_error,
                   portfolio_df, portfolio_error>>

UploadTransactions ==
    /\ pc = "transactions"
    /\ \E f \in TransactionFiles \cup {NoFile} :
         /\ upload' = f
         /\ LET s == ProcessTransactions(trans_df, trans_error, f)
            IN  trans_df' = s.df /\ trans_error' = s.err
    /\ pc' = "net_worth"
    /\ UNCHANGED <<pipeVars, net_worth_df, net_worth_error,
                   portfolio_df, portfolio_error, page>>

UploadNetWorth ==
    /\ pc = "net_worth"
    /\ \E f \in NetWorthFiles \cup {NoFile} :
         /\ upload' = f
         /\ LET s == ProcessNetWorth(net_worth_df, net_worth_error, f)
            IN  net_worth_df' = s.df /\ net_worth_error' = s.err
    /\ pc' = "portfolio"
    /\ UNCHANGED <<pipeVars, trans_df, trans_error,
                   portfolio_df, portfolio_error, page>>

UploadPortfolio ==
    /\ pc = "portfolio"
    /\ \E f \in PortfolioFiles \cup {NoFile} :
         /\ upload' = f
         /\ LET s == ProcessPortfolio(portfolio_df, portfolio_error, f)
            IN  portfolio_df' = s.df /\ portfolio_error' = s.err
    /\ pc' = "render"
    /\ UNCHANGED <<pipeVars, trans_df, trans_error,
                   net_worth_df, net_worth_error, page>>

Render ==
    /\ pc = "render"
    /\ trans_df' = IF page = "Transactions"
                   THEN RenderTransactions(trans_df, trans_error)
                   ELSE trans_df
    /\ pc' = "sidebar"
    /\ UNCHANGED <<pipeVars, trans_error, net_worth_df, net_worth_error,
                   portfolio_df, portfolio_error, page, upload>>

NextMain ==
    Sidebar \/ UploadTransactions \/ UploadNetWorth \/ UploadPortfolio \/ Render

SpecMain == InitMain /\ [][NextMain]_vars

(***************************************************************************)
(* Properties.                                                             *)
(***************************************************************************)
RECURSIVE SumSeq(_, _)
SumSeq(q, c) == IF q = <<>> THEN 0 ELSE q[1][c] + SumSeq(Tail(q), c)

Before(p, q) == p.y < q.y \/ (p.y = q.y /\ p.m < q.m)

\* The months of the rows of the loaded table whose Type is one of types.
MonthsOfTypes(types) ==
    { ret.df.rows[i]["Month"] :
        i \in {j \in DOMAIN ret.df.rows : ret.df.rows[j]["Type"] \in types} }

\* C1: after calculate_monthly_cash_flow on an accepted table, the sum of
\* Signed_Amount over all rows equals total income_by_month minus total
\* expense_by_month, and equals the sum of the net flows of monthly_summary.
C1_SignedTotalIsIncomeMinusExpense ==
    pc = "aggregated" =>
        /\ SumCol(df.rows, "Signed_Amount")
             = SumSeq(flow.income_by_month, "Amount")
               - SumSeq(flow.expense_by_month, "Amount")
        /\ SumCol(df.rows, "Signed_Amount")
             = SumSeq(flow.monthly_summary, "Signed_Amount")

\* C2: load_and_preprocess_transactions never ends by raising; a failure is
\* a returned error value.
C2_LoadNeverRaises == pc # "start" => ret.kind = "returned"

\* C3: a table lacking Date or Amount yields a non-empty error message and an
\* empty table, and whenever the returned message is non-empty the returned
\* table is empty.
C3_SchemaFailureReturnsEmptyTable ==
    pc # "start" =>
        /\ ("Date" \notin raw.cols \/ "Amount" \notin raw.cols)
             => /\ ret.kind = "returned"
                /\ ret.err # ""
                /\ ret.df.cols = {} /\ ret.df.rows = <<>>
        /\ (ret.kind = "returned" /\ ret.err # "")
             => (ret.df.cols = {} /\ ret.df.rows = <<>>)

C3_Witness ==
    /\ pc = "loaded"
    /\ "Date" \in raw.cols /\ "Amount" \notin raw.cols
    /\ ret.err = InvalidTransactionsMsg

\* C4: after a successful load every Amount is the absolute value of the
\* original one (so >= 0); without a Type column in the input a row is
\* Income exactly when its original Amount was >= 0 and Expense otherwise;
\* a supplied Type column is unchanged.
C4_AmountAbsoluteTypeInferred ==
    (pc # "start" /\ Accepted) =>
        /\ Len(ret.df.rows) = Len(raw.rows)
        /\ \A i \in DOMAIN raw.rows :
              LET before == raw.rows[i]
                  after  == ret.df.rows[i]
              IN  /\ after["Amount"] >= 0
                  /\ after["Amount"] \in {before["Amount"], -before["Amount"]}
                  /\ IF "Type" \in raw.cols
                     THEN after["Type"] = before["Type"]
                     ELSE /\ (after["Type"] = "Income") <=> (before["Amount"] >= 0)
                          /\ (after["Type"] = "Expense") <=> (before["Amount"] < 0)

C4_Witness ==
    /\ pc = "loaded" /\ Accepted
    /\ "Type" \notin raw.cols
    /\ \E i, j \in DOMAIN raw.rows :
          /\ raw.rows[i]["Amount"] = 0 /\ ret.df.rows[i]["Type"] = "Income"
          /\ raw.rows[j]["Amount"] < 0 /\ ret.df.rows[j]["Type"] = "Expense"
          /\ ret.df.rows[j]["Amount"] > 0

\* C5: without a Category column the category is 'Bills & Utilities' if the
\* description matches the bills keywords, else 'Food & Shopping' if it
\* matches the food keywords, else 'Income' for an Income row, else 'Other'
\* (the last matching rule of the code's order wins); a supplied Category
\* column is unchanged.
C5_LastMatchingCategoryRuleWins ==
    (pc # "start" /\ Accepted) =>
        \A i \in DOMAIN raw.rows :
            LET after == ret.df.rows[i]
            IN  IF "Category" \in raw.cols
                THEN after["Category"] = raw.rows[i]["Category"]
                ELSE LET de == raw.rows[i]["Description"]
                     IN  /\ after["Category"] =
                               IF str_contains(de, BillsPattern) THEN "Bills & Utilities"
                               ELSE IF str_contains(de, FoodPattern) THEN "Food & Shopping"
                               ELSE IF after["Type"] = "Income" THEN "Income"
                               ELSE "Other"
                         /\ de = "Rent or Shopping" => after["Category"] = "Bills & Utilities"
                         /\ de = "BILL" => after["Category"] = "Bills & Utilities"
                         /\ de = "dinner" => after["Category"] = "Food & Shopping"
                         /\ de = "Salary" =>
                               after["Category"] =
                                   IF after["Type"] = "Income" THEN "Income" ELSE "Other"

C5_Witness ==
    /\ pc = "loaded" /\ Accepted
    /\ "Category" \notin raw.cols
    /\ \E i, j \in DOMAIN raw.rows :
          /\ raw.rows[i]["Description"] = "Rent or Shopping"
          /\ ret.df.rows[i]["Category"] = "Bills & Utilities"
          /\ raw.rows[j]["Description"] = "dinner"
          /\ ret.df.rows[j]["Type"] = "Income"
          /\ ret.df.rows[j]["Category"] = "Food & Shopping"

\* C6: a second load_and_preprocess_transactions on the table the first one
\* returned succeeds and leaves Date, Amount, Type, Category and Month of
\* every row as they were.
C6_SecondLoadChangesNothing ==
    pc = "reloaded" =>
        /\ second.kind = "returned" /\ second.err = ""
        /\ second.df.cols = ret.df.cols
        /\ Len(second.df.rows) = Len(ret.df.rows)
        /\ \A i \in DOMAIN ret.df.rows :
              \A c \in {"Date", "Amount", "Type", "Category", "Month"} :
                  second.df.rows[i][c] = ret.df.rows[i][c]

C6_Witness ==
    /\ pc = "reloaded"
    /\ "Type" \notin raw.cols /\ "Category" \notin raw.cols
    /\ \E i \in DOMAIN raw.rows :
          /\ raw.rows[i]["Amount"] < 0
          /\ second.df.rows[i]["Type"] = "Expense"
          /\ second.df.rows[i]["Amount"] = -raw.rows[i]["Amount"]

\* C8: in monthly_summary, income_by_month and expense_by_month the months
\* are strictly ascending in time; monthly_summary holds exactly the months
\* that have a row, income_by_month those that have an Income row and
\* expense_by_month those that have an Expense row.
C8_MonthsAscendingAndExact ==
    pc = "aggregated" =>
        LET all == {ret.df.rows[i]["Month"] : i \in DOMAIN ret.df.rows}
            inc == MonthsOfTypes({"Income"})
            exp == MonthsOfTypes({"Expense"})
            ms  == flow.monthly_summary
            im  == flow.income_by_month
            em  == flow.expense_by_month
        IN  /\ {ms[k]["Month"] : k \in DOMAIN ms} = {PeriodStr(p) : p \in all}
            /\ \A j, k \in DOMAIN ms :
                  j < k => \E p, q \in all : /\ PeriodStr(p) = ms[j]["Month"]
                                             /\ PeriodStr(q) = ms[k]["Month"]
                                             /\ Before(p, q)
            /\ {im[k]["Month"] : k \in DOMAIN im} = inc
            /\ \A j, k \in DOMAIN im : j < k => Before(im[j]["Month"], im[k]["Month"])
            /\ {em[k]["Month"] : k \in DOMAIN em} = exp
            /\ \A j, k \in DOMAIN em : j < k => Before(em[j]["Month"], em[k]["Month"])

C8_Witness ==
    /\ pc = "aggregated"
    /\ Len(raw.rows) = 2
    /\ raw.rows[1]["Date"] = [str |-> "2023-01-05"]
    /\ raw.rows[2]["Date"] = [str |-> "2022-12-20"]
    /\ ret.df.rows[1]["Type"] = "Income" /\ ret.df.rows[2]["Type"] = "Expense"
    /\ flow.monthly_summary[1]["Month"] = "2022-12"
    /\ flow.monthly_summary[2]["Month"] = "2023-01"
    /\ Len(flow.income_by_month) = 1 /\ Len(flow.expense_by_month) = 1

\* C9: calculate_monthly_cash_flow leaves the table passed to it as it was
\* (same columns, same cells).
C9_CashFlowLeavesTableUnchanged == pc = "aggregated" => df = ret.df

\* C7: for an accepted holdings table every row's value is Shares times its
\* price, the price being the table's price for the symbol and 0 for a
\* symbol the table lacks (the call still returning an empty error), and the
\* total portfolio value is the sum of the row values.
C7_ValueIsSharesTimesPrice ==
    (pc \in {"valued", "totalled"} /\ Accepted) =>
        LET sym == IF "Investment" \in raw.cols THEN "Investment" ELSE "Asset"
            qty == IF "Shares" \in raw.cols THEN "Shares" ELSE "Quantity"
            price == [tk \in Tickers |->
                        IF tk = "AAPL" THEN 17550
                        ELSE IF tk = "MSFT" THEN 32575
                        ELSE IF tk = "GOOGL" THEN 13020 ELSE 0]
        IN  /\ Len(ret.df.rows) = Len(raw.rows)
            /\ \A i \in DOMAIN raw.rows :
                  LET r == ret.df.rows[i]
                  IN  /\ r["Investment"] = raw.rows[i][sym]
                      /\ r["Shares"] = raw.rows[i][qty]
                      /\ r["Current Price ($)"] = price[r["Investment"]]
                      /\ r["Current Value ($)"] = r["Shares"] * r["Current Price ($)"]
                      /\ r["Investment"] = "TSLA" => r["Current Value ($)"] = 0
                      /\ (r["Investment"] = "AAPL" /\ r["Shares"] = 10)
                            => r["Current Value ($)"] = 175500
            /\ pc = "totalled" => total = SumSeq(ret.df.rows, "Current Value ($)")

C7_Witness ==
    /\ pc = "totalled" /\ ret.err = ""
    /\ "Asset" \in raw.cols
    /\ Len(raw.rows) = 2
    /\ raw.rows[1]["Asset"] = "AAPL" /\ raw.rows[1]["Quantity"] = 10
    /\ raw.rows[2]["Asset"] = "TSLA" /\ raw.rows[2]["Quantity"] = 3
    /\ ret.df.rows[2]["Current Value ($)"] = 0
    /\ total = 175500

\* C10: once session_state.net_worth_error is non-empty it stays non-empty
\* and session_state.net_worth_df is never replaced again; an upload of a
\* transactions or portfolio file that is read and processed without raising
\* overwrites both the stored table and the stored error of its section.
C10_NetWorthErrorIsSticky ==
    [][ /\ net_worth_error # ""
            => (net_worth_error' # "" /\ net_worth_df' = net_worth_df)
        /\ (pc = "transactions" /\ upload'.kind = "file" /\ upload'.ok
              /\ load_and_preprocess_transactions(upload'.table).kind = "returned")
            => /\ trans_df' = load_and_preprocess_transactions(upload'.table).df
               /\ trans_error' = load_and_preprocess_transactions(upload'.table).err
        /\ (pc = "portfolio" /\ upload'.kind = "file" /\ upload'.ok
              /\ update_portfolio_value(upload'.table).kind = "returned")
            => /\ portfolio_df' = update_portfolio_value(upload'.table).df
               /\ portfolio_error' = update_portfolio_value(upload'.table).err
      ]_vars

\* A valid net-worth file has just been uploaded while the error was set: the
\* stored table is still the empty one and the error is still there.
C10_Witness ==
    /\ pc = "portfolio"
    /\ upload = FileOf(NetWorthTable(<<"Date", "Net Worth">>, "2023-01-05"))
    /\ net_worth_error # ""
    /\ IsEmpty(net_worth_df)
    /\ trans_error = "" /\ ~IsEmpty(trans_df)

====
